---- MODULE Spec2Model ----
(***************************************************************************)
(* A model of the gigs graphics-job scheduler: the readiness combinator    *)
(* and the typed job inputs of src/src/input.rs, the extraction of job     *)
(* metadata of src/src/lib.rs, and the per-frame tick of the job runner.   *)
(***************************************************************************)
EXTENDS Integers, Sequences, FiniteSets, TLC

\* ------------------------------------------------------------------ bounds
\* Longest input tuple explored (the source generates tuples of 0 to 15).
MaxInputs == 4
\* Number of jobs the host spawns.
NumJobs == 3
\* JobExecutionSettings.max_jobs_per_frame of the explored configuration.
MaxJobsPerFrame == 1
\* JobExecutionSettings.max_job_stall_frames of the explored configuration.
MaxJobStallFrames == 1
\* Number of jobs of the job type whose inputs are examined.
NumInputJobs == 2
\* Failed as_bind_group attempts counted per job.
MaxPrepFailures == 2
\* Bind groups built per job that are told apart.
MaxBindGroups == 2

None == "None"

VARIABLES
    \* TupleSpec: one evaluation of a tuple's status()
    inputs,         \* the statuses of the tuple's members, in order
    aggregate,      \* what status() returned, None before the call
    \* Spec: main world
    jobs,           \* spawned job -> the components the host spawned it with
    \* Spec: render world
    status,         \* job -> None or its JobStatus
    meta,           \* extracted job -> the mirrored priority, computed priority, deps
    stall,          \* job -> consecutive ticks it has ended in Waiting (kept on
                    \* a job the stall timeout failed, 0 on any other job)
    failed,         \* job -> the failure marker of a Done job
    ran,            \* jobs whose run logic was invoked in this tick
    reclaimed,      \* Done jobs removed from the graph
    polled,         \* job -> the aggregate input status read by this tick's poll
    phase,          \* the step of the frame that comes next
    \* InputSpec: the render world of one job type J
    kind,           \* the input kind J::In under examination
    live,           \* the jobs extract_jobs cloned into the render world
    jobKey,         \* job -> the key of its Job{Render,Compute}Pipeline component
    keyChanged,     \* the jobs whose key component is Changed for the queue system
    pipelineId,     \* job -> the id of its Job{Render,Compute}PipelineId component
    specialized,    \* Specialized{Render,Compute}Pipelines: key -> id
    pipelines,      \* PipelineCache: id -> the key and the state of the entry
    bindGroup,      \* job -> the generation of its PreparedJobBindGroup component
    prepFailures    \* job -> as_bind_group attempts that returned Err (counted to the cap)

tupleVars == <<inputs, aggregate>>
schedVars == <<jobs, status, meta, stall, failed, ran, reclaimed, polled, phase>>
inputVars == <<kind, live, jobKey, keyChanged, pipelineId, specialized, pipelines,
               bindGroup, prepFailures>>
vars == <<tupleVars, schedVars, inputVars>>

\* =================================================== readiness combinator
JobInputStatus == {"Ready", "Wait", "Fail"}

\* A combinator whose left operand decides unless it is Ready.
combine_left_decides(self, rhs) ==
    IF self = "Ready" THEN rhs ELSE self

\* A combine that forgets the (_, Fail) arm of the match.
combine_ignores_rhs_fail(self, rhs) ==
    IF self = "Fail" THEN "Fail"
    ELSE IF self = "Ready" /\ rhs = "Ready" THEN "Ready"
    ELSE "Wait"

combine(self, rhs) ==
    IF self = "Fail" \/ rhs = "Fail" THEN "Fail"
    ELSE IF self = "Ready" /\ rhs = "Ready" THEN "Ready"
    ELSE "Wait"

\* JobInputStatus::Ready.combine(s1).combine(s2)... over the members, left to right
RECURSIVE fold_status(_, _)
fold_status(acc, members) ==
    IF members = <<>> THEN acc
    ELSE fold_status(combine(acc, Head(members)), Tail(members))

tuple_status(members) == fold_status("Ready", members)

RECURSIVE TuplesOfLen(_)
TuplesOfLen(n) ==
    IF n = 0 THEN {<<>>}
    ELSE {Append(t, s) : t \in TuplesOfLen(n - 1), s \in JobInputStatus}

InputTuples == UNION {TuplesOfLen(n) : n \in 0..MaxInputs}

\* =========================================================== scheduler
Jobs == 1..NumJobs
\* The render world allocates its entities in order. It may already hold an
\* entity when the first job is synced, so the first job's render entity is
\* one of these and every later job gets the next index.
FirstRenderEntities == {1, 2}
Priorities == {5, 10}
\* The <<declared, computed>> priorities a job may be spawned with.
SpawnPriorities == {<<5, 5>>, <<5, 10>>, <<10, 5>>}
JobStatus == {"Blocked", "Waiting", "Ready", "Done"}

Spawned == DOMAIN jobs
Extracted == {j \in Jobs : status[j] # None}

\* The job stored at a render-world entity, if any.
JobAt(e) == {j \in Spawned : jobs[j].render_entity = e}

\* The render-world entities the sync may hand to the next job.
NextRenderEntities ==
    IF Spawned = {} THEN FirstRenderEntities
    ELSE {jobs[Cardinality(Spawned)].render_entity + 1}

\* ------------------------------------------------------------ main world
\* fn compute_priorities(jobs) {}: the system has an empty body, so the
\* computed priorities stay what the host spawned the jobs with.
compute_priorities(js) == js

\* The host spawns the next job with its declared priority, its computed
\* priority and its dependencies (jobs spawned before it: the graph is a
\* DAG); the sync gives it a fresh render-world entity.
Spawn ==
    /\ phase = "extract"
    /\ \E j \in Jobs, e \in NextRenderEntities, pr \in SpawnPriorities,
          d \in SUBSET Jobs :
        /\ j \notin Spawned
        /\ 1..(j - 1) \subseteq Spawned
        /\ d \subseteq 1..(j - 1)
        /\ jobs' = compute_priorities(
                     jobs @@ (j :> [priority |-> pr[1], computed_priority |-> pr[2],
                                    deps |-> d, render_entity |-> e,
                                    added |-> TRUE]))
    /\ UNCHANGED <<status, meta, stall, failed, ran, reclaimed, polled, phase>>
    /\ UNCHANGED <<tupleVars, inputVars>>

\* --------------------------------------------------------- extraction
\* A query that forgets the Added<JobMarker> filter.
AddedJobs_every_job == Spawned

\* Added<JobMarker>: the jobs spawned since the system last ran.
AddedJobs == {j \in Spawned : jobs[j].added}

\* The branches of the initial status exchanged.
initial_status_swapped(deps) == IF deps = {} THEN "Blocked" ELSE "Waiting"

initial_status(deps) == IF deps = {} THEN "Waiting" ELSE "Blocked"

\* deps.clone(): the mirrored set holds the main-world identifiers as they are.
clone_deps(deps) == deps

\* A copy that mirrors the declared priority in place of the computed one.
extract_computed_priority_declared(j) == jobs[j].priority

\* *computed_priority
extract_computed_priority(j) == jobs[j].computed_priority

\* *priority
extract_priority(j) == jobs[j].priority

extract_job_meta ==
    /\ phase = "extract"
    /\ status' = [j \in Jobs |-> IF j \in AddedJobs
                                 THEN initial_status(jobs[j].deps)
                                 ELSE status[j]]
    /\ meta' = [j \in DOMAIN meta \cup AddedJobs |->
                    IF j \in AddedJobs
                    THEN [priority |-> extract_priority(j),
                          computed_priority |-> extract_computed_priority(j),
                          deps |-> clone_deps(jobs[j].deps)]
                    ELSE meta[j]]
    /\ jobs' = [j \in Spawned |-> [jobs[j] EXCEPT !.added = FALSE]]
    /\ phase' = "check"
    /\ UNCHANGED <<stall, failed, ran, reclaimed, polled>>
    /\ UNCHANGED <<tupleVars, inputVars>>

\* ------------------------------------------------------------ the tick
\* fn check_dependencies(commands) {}: the system has an empty body.
check_dependencies(st) == st

\* A mirrored dependency names a render-world entity: it is satisfied when
\* the job stored at that entity is Done without the failure marker.
DependencySatisfied(d) == \E a \in JobAt(d) : status[a] = "Done" /\ ~failed[a]

DependenciesSatisfied(j) == \A d \in meta[j].deps : DependencySatisfied(d)

\* Step 1: Blocked jobs whose dependencies are satisfied become Waiting.
advance_blocked ==
    /\ phase = "check"
    /\ status' = [j \in Jobs |->
                    IF check_dependencies(status)[j] = "Blocked" /\ DependenciesSatisfied(j)
                    THEN "Waiting" ELSE check_dependencies(status)[j]]
    /\ phase' = "poll"
    /\ UNCHANGED <<jobs, meta, stall, failed, ran, reclaimed, polled>>
    /\ UNCHANGED <<tupleVars, inputVars>>

WaitingJobs == {j \in Jobs : status[j] = "Waiting"}

\* A stall check that never fires.
StallExpired_never(j) == FALSE

\* The job has already ended max_job_stall_frames ticks in Waiting.
StallExpired(j) == stall[j] >= MaxJobStallFrames

\* A poll that leaves a job whose inputs report Fail in Waiting.
poll_outcome_retries(j, s) ==
    IF s = "Ready" THEN "Ready"
    ELSE IF s = "Wait" /\ StallExpired(j) THEN "Done"
    ELSE "Waiting"

\* The status a Waiting job takes when its aggregate input status is s:
\* Ready makes it Ready, Fail fails it, Wait fails it once the stall bound
\* is reached and keeps it Waiting before.
poll_outcome(j, s) ==
    IF s = "Ready" THEN "Ready"
    ELSE IF s = "Fail" \/ StallExpired(j) THEN "Done"
    ELSE "Waiting"

\* The poll of the Waiting jobs with the aggregate input statuses read.
poll_with(read) ==
    /\ polled' = read
    /\ status' = [j \in Jobs |->
                    IF j \in WaitingJobs THEN poll_outcome(j, read[j]) ELSE status[j]]
    /\ failed' = [j \in Jobs |->
                    IF j \in WaitingJobs /\ poll_outcome(j, read[j]) = "Done"
                    THEN TRUE ELSE failed[j]]
    /\ stall' = [j \in Jobs |->
                    IF j \in WaitingJobs /\ read[j] = "Wait"
                    THEN (IF StallExpired(j) THEN stall[j] ELSE stall[j] + 1)
                    ELSE 0]

\* Step 2: every Waiting job's aggregate input status is polled.
poll_readiness ==
    /\ phase = "poll"
    /\ \E read \in [WaitingJobs -> JobInputStatus] : poll_with(read)
    /\ phase' = "execute"
    /\ UNCHANGED <<jobs, meta, ran, reclaimed>>
    /\ UNCHANGED <<tupleVars, inputVars>>

ready_jobs(st) == {j \in Jobs : st[j] = "Ready"}

ReadyJobs == ready_jobs(status)

\* An order that runs the lowest computed priority first.
RunsBefore_ascending(a, b) ==
    \/ meta[a].computed_priority < meta[b].computed_priority
    \/ meta[a].computed_priority = meta[b].computed_priority /\ a < b

\* ComputedPriority descending, ties broken by admission order.
RunsBefore(a, b) ==
    \/ meta[a].computed_priority > meta[b].computed_priority
    \/ meta[a].computed_priority = meta[b].computed_priority /\ a < b

\* A selection that ignores the budget.
Selected_no_budget == ReadyJobs

\* A selection that charges the jobs failed in this tick to the budget.
selected_counts_failed(st) ==
    {j \in ready_jobs(st) :
        Cardinality({o \in ready_jobs(st) : RunsBefore(o, j)})
          + Cardinality({f \in Jobs : st[f] = "Done" /\ f \notin reclaimed})
            < MaxJobsPerFrame}

\* Up to max_jobs_per_frame of the jobs Ready in st, the first ones of the order.
selected(st) ==
    {j \in ready_jobs(st) :
        Cardinality({o \in ready_jobs(st) : RunsBefore(o, j)}) < MaxJobsPerFrame}

Selected == selected(status)

\* Step 3: the run logic of the selected jobs is invoked; each run succeeds
\* or signals JobError.
execute ==
    /\ phase = "execute"
    /\ \E result \in [Selected -> {"Ok", "Err"}] : ran' = result
    /\ polled' = <<>>
    /\ phase' = "mark"
    /\ UNCHANGED <<jobs, status, meta, stall, failed, reclaimed>>
    /\ UNCHANGED <<tupleVars, inputVars>>

\* The statuses after the jobs with a run result in r are marked.
mark_status(st, r) == [j \in Jobs |-> IF j \in DOMAIN r THEN "Done" ELSE st[j]]

\* Step 4: the executed jobs become Done, with the failure marker if the run failed.
mark_done ==
    /\ phase = "mark"
    /\ status' = mark_status(status, ran)
    /\ failed' = [j \in Jobs |-> IF j \in DOMAIN ran THEN ran[j] = "Err" ELSE failed[j]]
    /\ phase' = "cleanup"
    /\ UNCHANGED <<jobs, meta, stall, ran, reclaimed, polled>>
    /\ UNCHANGED <<tupleVars, inputVars>>

\* Step 5: Done jobs are reclaimed; their outcome stays on record for dependents.
cleanup ==
    /\ phase = "cleanup"
    /\ reclaimed' = reclaimed \cup {j \in Jobs : status[j] = "Done"}
    /\ ran' = <<>>
    /\ phase' = "extract"
    /\ UNCHANGED <<jobs, status, meta, stall, failed, polled>>
    /\ UNCHANGED <<tupleVars, inputVars>>

SchedInit ==
    /\ jobs = <<>>
    /\ status = [j \in Jobs |-> None]
    /\ meta = <<>>
    /\ stall = [j \in Jobs |-> 0]
    /\ failed = [j \in Jobs |-> FALSE]
    /\ ran = <<>>
    /\ reclaimed = {}
    /\ polled = <<>>
    /\ phase = "extract"

TupleIdle == inputs = <<>> /\ aggregate = None

InputIdle ==
    /\ kind = None
    /\ live = {}
    /\ jobKey = <<>>
    /\ keyChanged = {}
    /\ pipelineId = <<>>
    /\ specialized = <<>>
    /\ pipelines = <<>>
    /\ bindGroup = <<>>
    /\ prepFailures = <<>>

Init == SchedInit /\ TupleIdle /\ InputIdle

Next ==
    \/ Spawn
    \/ extract_job_meta
    \/ advance_blocked
    \/ poll_readiness
    \/ execute
    \/ mark_done
    \/ cleanup

Spec == Init /\ [][Next]_vars

\* ------------------------------------------------- tuple specification
\* A tuple of inputs whose members report the statuses `inputs`.
TupleInit ==
    /\ inputs \in InputTuples
    /\ aggregate = None
    /\ SchedInit
    /\ InputIdle

\* <(T0, .., Tn) as JobInput>::status
TupleStatusCall ==
    /\ aggregate = None
    /\ aggregate' = tuple_status(inputs)
    /\ UNCHANGED inputs
    /\ UNCHANGED <<schedVars, inputVars>>

TupleNext == TupleStatusCall

TupleSpec == TupleInit /\ [][TupleNext]_vars

\* ============================================================ job inputs
InputJobs == 1..NumInputJobs
Keys == {"k1", "k2"}
InputKinds == {"render", "compute", "bind_group"}
CachedPipelineState == {"Queued", "Creating", "Ok", "Err"}

Min(a, b) == IF a <= b THEN a ELSE b

\* The orders in which a query may yield the entities of S.
Orders(S) ==
    {o \in [1..Cardinality(S) -> S] :
        \A a, b \in 1..Cardinality(S) : a # b => o[a] # o[b]}

\* extract_jobs: the jobs added since the last extraction are cloned into
\* the render world.
extract_jobs ==
    /\ \E added \in SUBSET (InputJobs \ live) :
        /\ added # {}
        /\ live' = live \cup added
    /\ UNCHANGED <<kind, jobKey, keyChanged, pipelineId, specialized, pipelines,
                   bindGroup, prepFailures>>
    /\ UNCHANGED <<tupleVars, schedVars>>

\* ------------------------------------------------- specialized pipelines
\* ExtractComponent for JobRenderPipeline<P>: every frame the key component of
\* every job is cloned from the main world and inserted in the render world,
\* whatever the host has set it to; the insert flags it Changed.
extract_render_pipeline_key ==
    /\ kind = "render"
    /\ live # {}
    /\ \E keys \in [live -> Keys] : jobKey' = keys
    /\ keyChanged' = live
    /\ UNCHANGED <<kind, live, pipelineId, specialized, pipelines, bindGroup, prepFailures>>
    /\ UNCHANGED <<tupleVars, schedVars>>

\* ExtractComponent for JobComputePipeline<P>
extract_compute_pipeline_key ==
    /\ kind = "compute"
    /\ live # {}
    /\ \E keys \in [live -> Keys] : jobKey' = keys
    /\ keyChanged' = live
    /\ UNCHANGED <<kind, live, pipelineId, specialized, pipelines, bindGroup, prepFailures>>
    /\ UNCHANGED <<tupleVars, schedVars>>

\* PipelineCache::queue_{render,compute}_pipeline: a new entry, Queued.
queue_pipeline(sp, pl, key) ==
    [id |-> Len(pl) + 1,
     specialized |-> sp,
     pipelines |-> Append(pl, [key |-> key, state |-> "Queued"])]

\* Specialized{Render,Compute}Pipelines::specialize: the id memoized for the
\* key, or a newly queued pipeline that is memoized for it.
specialize(sp, pl, key) ==
    IF key \in DOMAIN sp
    THEN [id |-> sp[key], specialized |-> sp, pipelines |-> pl]
    ELSE [id |-> Len(pl) + 1,
          specialized |-> (key :> (Len(pl) + 1)) @@ sp,
          pipelines |-> Append(pl, [key |-> key, state |-> "Queued"])]

\* A queue system that specializes the default key instead of the job's.
render_specialize_default_key(sp, pl, key) == specialize(sp, pl, "k1")

\* A queue system that asks the pipeline cache directly, past the specializer.
render_specialize_unmemoized(sp, pl, key) == queue_pipeline(sp, pl, key)

\* specializer.specialize(&pipeline_cache, &base_pipeline, job_pipeline.0.clone())
render_specialize(sp, pl, key) == specialize(sp, pl, key)

\* specializer.specialize(&pipeline_cache, &base_pipeline, job_pipeline.0.clone())
compute_specialize(sp, pl, key) == specialize(sp, pl, key)

\* for (entity, job_pipeline) in &job_pipelines { .. insert(JobRenderPipelineId(id)) }
RECURSIVE queue_render_loop(_, _)
queue_render_loop(order, acc) ==
    IF order = <<>> THEN acc
    ELSE LET j == Head(order)
             r == render_specialize(acc.specialized, acc.pipelines, jobKey[j])
         IN queue_render_loop(Tail(order),
                              [ids |-> (j :> r.id) @@ acc.ids,
                               specialized |-> r.specialized,
                               pipelines |-> r.pipelines])

\* for (entity, job_pipeline) in &job_pipelines { .. insert(JobComputePipelineId(id)) }
RECURSIVE queue_compute_loop(_, _)
queue_compute_loop(order, acc) ==
    IF order = <<>> THEN acc
    ELSE LET j == Head(order)
             r == compute_specialize(acc.specialized, acc.pipelines, jobKey[j])
         IN queue_compute_loop(Tail(order),
                               [ids |-> (j :> r.id) @@ acc.ids,
                                specialized |-> r.specialized,
                                pipelines |-> r.pipelines])

QueueState == [ids |-> pipelineId, specialized |-> specialized, pipelines |-> pipelines]

\* The jobs matching Changed<JobRenderPipeline<P>> are specialized, in the
\* order the query yields them; the system has then seen every change.
queue_job_render_pipelines ==
    /\ kind = "render"
    /\ \E order \in Orders(keyChanged) :
        LET r == queue_render_loop(order, QueueState)
        IN  /\ pipelineId' = r.ids
            /\ specialized' = r.specialized
            /\ pipelines' = r.pipelines
    /\ keyChanged' = {}
    /\ UNCHANGED <<kind, live, jobKey, bindGroup, prepFailures>>
    /\ UNCHANGED <<tupleVars, schedVars>>

queue_job_compute_pipelines ==
    /\ kind = "compute"
    /\ \E order \in Orders(keyChanged) :
        LET r == queue_compute_loop(order, QueueState)
        IN  /\ pipelineId' = r.ids
            /\ specialized' = r.specialized
            /\ pipelines' = r.pipelines
    /\ keyChanged' = {}
    /\ UNCHANGED <<kind, live, jobKey, bindGroup, prepFailures>>
    /\ UNCHANGED <<tupleVars, schedVars>>

\* The states PipelineCache may move an entry to: compilation proceeds and
\* ends Ok or Err, an errored entry is queued again when its shader arrives,
\* and a compiled one when its shader is reloaded.
NextPipelineStates(st) ==
    CASE st = "Queued" -> {"Creating", "Ok", "Err"}
      [] st = "Creating" -> {"Ok", "Err"}
      [] st = "Err" -> {"Queued"}
      [] st = "Ok" -> {"Queued"}

\* PipelineCache::process_queue, off the scheduler's path.
process_pipeline_queue ==
    /\ \E id \in 1..Len(pipelines) :
        \E st \in NextPipelineStates(pipelines[id].state) :
            pipelines' = [pipelines EXCEPT ![id].state = st]
    /\ UNCHANGED <<kind, live, jobKey, keyChanged, pipelineId, specialized,
                   bindGroup, prepFailures>>
    /\ UNCHANGED <<tupleVars, schedVars>>

\* PipelineCache::get_{render,compute}_pipeline_state
pipeline_state(id) == pipelines[id].state

\* A status that reports an errored pipeline as Fail.
render_pipeline_status_fails(j) ==
    IF j \notin DOMAIN pipelineId THEN "Wait"
    ELSE IF pipeline_state(pipelineId[j]) = "Ok" THEN "Ready"
    ELSE IF pipeline_state(pipelineId[j]) = "Err" THEN "Fail"
    ELSE "Wait"

\* A status that is Ready as soon as the job has a pipeline id.
render_pipeline_status_ready_with_id(j) ==
    IF j \notin DOMAIN pipelineId THEN "Wait" ELSE "Ready"

\* <JobRenderPipeline<P> as JobInput<J>>::status
render_pipeline_status(j) ==
    IF j \notin DOMAIN pipelineId THEN "Wait"
    ELSE IF pipeline_state(pipelineId[j]) = "Ok" THEN "Ready"
    ELSE "Wait"

\* <JobComputePipeline<P> as JobInput<J>>::status
compute_pipeline_status(j) ==
    IF j \notin DOMAIN pipelineId THEN "Wait"
    ELSE IF pipeline_state(pipelineId[j]) = "Ok" THEN "Ready"
    ELSE "Wait"

\* ------------------------------------------------------------ bind groups
\* The generation of the bind group a successful as_bind_group attaches.
NextBindGroup(j) ==
    IF j \in DOMAIN bindGroup THEN Min(bindGroup[j] + 1, MaxBindGroups) ELSE 1

\* A preparer that takes the bind group off a job whose attempt failed.
prepared_bind_groups_removed_on_err(built) ==
    [j \in {i \in DOMAIN bindGroup \cup live : i \notin live \/ built[i] = "Ok"} |->
        IF j \in live THEN NextBindGroup(j) ELSE bindGroup[j]]

\* if let Ok(bind_group) = job.as_bind_group(..) { insert(PreparedJobBindGroup(bind_group)) }
prepared_bind_groups(built) ==
    [j \in DOMAIN bindGroup \cup {i \in live : built[i] = "Ok"} |->
        IF j \in live /\ built[j] = "Ok" THEN NextBindGroup(j) ELSE bindGroup[j]]

\* Every job of the type is visited each tick; each as_bind_group returns Ok or Err.
prepare_job_bind_group ==
    /\ kind = "bind_group"
    /\ live # {}
    /\ \E built \in [live -> {"Ok", "Err"}] :
        /\ bindGroup' = prepared_bind_groups(built)
        /\ prepFailures' = [j \in InputJobs |->
                              IF j \in live /\ built[j] = "Err"
                              THEN Min(prepFailures[j] + 1, MaxPrepFailures)
                              ELSE prepFailures[j]]
    /\ UNCHANGED <<kind, live, jobKey, keyChanged, pipelineId, specialized, pipelines>>
    /\ UNCHANGED <<tupleVars, schedVars>>

\* <JobAsBindGroup as JobInput<J>>::status
bind_group_status(j) == IF j \in DOMAIN bindGroup THEN "Ready" ELSE "Wait"

\* ------------------------------------------------------ always-ready inputs
\* <Entity as JobInput<J>>::status
entity_status(data) == "Ready"

\* <MainEntity as JobInput<J>>::status
main_entity_status(data) == "Ready"

\* A component input that waits.
component_status_waits(data) == "Wait"

\* <&T as JobInput<J>>::status
component_status(data) == "Ready"

\* An optional input that waits for its data.
option_status_waits_when_absent(data) == IF data = None THEN "Wait" ELSE "Ready"

\* <Option<T> as JobInput<J>>::status
option_status(data) == "Ready"

\* The query item of Option<&PreparedJobBindGroup<J>>: Some when the job
\* entity carries the component.
option_data(j) == IF j \in DOMAIN bindGroup THEN "Some" ELSE None

\* ------------------------------------------------------------------- get
\* A get returns "Item" for the value it yields, or panics.
\* <Entity as JobInput<J>>::get, <MainEntity ..>::get, <&T ..>::get,
\* <Option<T> ..>::get: the query item is handed back.
data_get(data) == "Item"

\* <JobAsBindGroup as JobInput<J>>::get: &data.unwrap().0
bind_group_get(j) == IF j \in DOMAIN bindGroup THEN "Item" ELSE "Panic"

\* PipelineCache::get_{render,compute}_pipeline: Some for a compiled entry.
cached_pipeline(id) == IF pipeline_state(id) = "Ok" THEN "Some" ELSE None

\* <JobRenderPipeline<P> as JobInput<J>>::get: data.unwrap(), then
\* get_render_pipeline(id).expect(..)
render_pipeline_get(j) ==
    IF j \notin DOMAIN pipelineId THEN "Panic"
    ELSE IF cached_pipeline(pipelineId[j]) = None THEN "Panic"
    ELSE "Item"

\* <JobComputePipeline<P> as JobInput<J>>::get
compute_pipeline_get(j) ==
    IF j \notin DOMAIN pipelineId THEN "Panic"
    ELSE IF cached_pipeline(pipelineId[j]) = None THEN "Panic"
    ELSE "Item"

\* The tuple's get calls every member's get; a panic in one is a panic of the call.
tuple_get(members) ==
    IF \E i \in 1..Len(members) : members[i] = "Panic" THEN "Panic" ELSE "Item"

InputInit ==
    /\ kind \in InputKinds
    /\ live = {}
    /\ jobKey = <<>>
    /\ keyChanged = {}
    /\ pipelineId = <<>>
    /\ specialized = <<>>
    /\ pipelines = <<>>
    /\ bindGroup = <<>>
    /\ prepFailures = [j \in InputJobs |-> 0]
    /\ SchedInit
    /\ TupleIdle

InputNext ==
    \/ extract_jobs
    \/ extract_render_pipeline_key
    \/ extract_compute_pipeline_key
    \/ queue_job_render_pipelines
    \/ queue_job_compute_pipelines
    \/ process_pipeline_queue
    \/ prepare_job_bind_group

InputSpec == InputInit /\ [][InputNext]_vars

\* ================================================ an always-ready job type
\* The aggregate status of J::In = (Entity, &T, Option<&U>) for a job that
\* carries no U.
always_ready_status(j) ==
    tuple_status(<<entity_status(j), component_status(j), option_status(option_data(j))>>)

\* Step 2 for the jobs of this type: the poll reads the status of J::In.
poll_always_ready ==
    /\ phase = "poll"
    /\ poll_with([j \in WaitingJobs |-> always_ready_status(j)])
    /\ phase' = "execute"
    /\ UNCHANGED <<jobs, meta, ran, reclaimed>>
    /\ UNCHANGED <<tupleVars, inputVars>>

AlwaysReadyNext ==
    \/ Spawn
    \/ extract_job_meta
    \/ advance_blocked
    \/ poll_always_ready
    \/ execute
    \/ mark_done
    \/ cleanup

AlwaysReadySpec == Init /\ [][AlwaysReadyNext]_vars

\* ================================================================ claims
AnyFail(members) == \E i \in 1..Len(members) : members[i] = "Fail"
AllReady(members) == \A i \in 1..Len(members) : members[i] = "Ready"

\* C1: the aggregate status a tuple's status() returns is Fail if any member
\* is Fail, otherwise Ready if and only if every member is Ready (so the
\* empty tuple is Ready), otherwise Wait.
C1_CombinationLaw ==
    aggregate # None =>
        aggregate = (IF AnyFail(inputs) THEN "Fail"
                     ELSE IF AllReady(inputs) THEN "Ready"
                     ELSE "Wait")

\* status() has been called on a tuple with a Ready, a Wait and a trailing Fail member.
C1_Witness ==
    /\ aggregate = "Fail"
    /\ Len(inputs) >= 3
    /\ inputs[1] = "Ready"
    /\ inputs[2] = "Wait"
    /\ inputs[Len(inputs)] = "Fail"

\* C2: a job is admitted as Waiting if its dependency set is empty and as
\* Blocked otherwise, and a job with an empty dependency set is never Blocked.
C2_InitialStatus ==
    [][\A j \in DOMAIN jobs' :
          /\ (status[j] = None /\ status'[j] # None)
                => status'[j] = (IF jobs'[j].deps = {} THEN "Waiting" ELSE "Blocked")
          /\ jobs'[j].deps = {} => status'[j] # "Blocked"]_vars

\* An extraction pass has just admitted a job without dependencies and a job with one.
C2_Witness ==
    /\ phase = "check"
    /\ \E j, k \in Extracted :
        /\ jobs[j].deps = {} /\ status[j] = "Waiting"
        /\ jobs[k].deps # {} /\ status[k] = "Blocked"

Rank(s) ==
    CASE s = "Blocked" -> 1
      [] s = "Waiting" -> 2
      [] s = "Ready" -> 3
      [] s = "Done" -> 4

\* C3: an admitted job's status never moves back along Blocked, Waiting,
\* Ready, Done (a later extraction pass does not reset it), and a step that
\* skips a status is a forced failure that lands in Done.
C3_MonotonicStatus ==
    [][\A j \in Jobs :
          status[j] # None =>
              /\ status'[j] # None
              /\ Rank(status'[j]) >= Rank(status[j])
              /\ Rank(status'[j]) > Rank(status[j]) + 1
                    => (status'[j] = "Done" /\ failed'[j])]_vars

\* A later extraction pass has run while one job was already Ready and
\* another had been failed out of Waiting.
C3_Witness ==
    /\ phase = "check"
    /\ \E j, k \in Extracted :
        /\ status[j] = "Ready"
        /\ status[k] = "Done" /\ failed[k] /\ k \in reclaimed

\* C4: each tick a job stays Waiting through is counted, the count never
\* exceeds max_job_stall_frames, and a job polled at the bound whose inputs
\* are not Ready is forced to Done with the failure marker.
C4_StallBound ==
    [][\A j \in Jobs :
          /\ (phase = "poll" /\ status[j] = "Waiting" /\ status'[j] = "Waiting")
                => stall'[j] = stall[j] + 1
          /\ stall'[j] <= MaxJobStallFrames
          /\ (phase = "poll" /\ status[j] = "Waiting"
              /\ stall[j] >= MaxJobStallFrames /\ status'[j] # "Ready")
                => (status'[j] = "Done" /\ failed'[j])]_vars

\* A job that waited max_job_stall_frames ticks with no Fail input has just
\* been forced to Done.
C4_Witness ==
    /\ phase = "execute"
    /\ \E j \in Extracted :
        /\ status[j] = "Done" /\ failed[j] /\ j \notin reclaimed
        /\ stall[j] = MaxJobStallFrames

\* C5: in one tick at most max_jobs_per_frame jobs go from Ready to Done,
\* and a Ready job that is not executed stays Ready.
C5_ExecutionBudget ==
    [][/\ Cardinality({j \in Jobs : status[j] = "Ready" /\ status'[j] = "Done"})
              <= MaxJobsPerFrame
       /\ \A j \in Jobs : status[j] = "Ready" => status'[j] \in {"Ready", "Done"}]_vars

\* The budget was used up in this tick and a Ready job is left over.
C5_Witness ==
    /\ phase = "cleanup"
    /\ Cardinality(DOMAIN ran) = MaxJobsPerFrame
    /\ \A j \in DOMAIN ran : status[j] = "Done"
    /\ ReadyJobs # {}

\* C6: no Ready job is executed in a tick that leaves Ready a job of higher
\* computed priority, or of the same computed priority admitted before it.
C6_PriorityOrder ==
    [][\A j, o \in Jobs :
          (status[j] = "Ready" /\ status[o] = "Ready"
           /\ status'[j] = "Done" /\ status'[o] = "Ready")
              => \/ jobs[j].computed_priority > jobs[o].computed_priority
                 \/ /\ jobs[j].computed_priority = jobs[o].computed_priority
                    /\ j < o]_vars

\* With computed priorities 5 and 10 both Ready, the job of priority 10 ran
\* and the job of priority 5, admitted before it, is still Ready.
C6_Witness ==
    /\ phase = "cleanup"
    /\ \E j \in DOMAIN ran, o \in ReadyJobs :
        /\ jobs[j].computed_priority = 10
        /\ jobs[o].computed_priority = 5
        /\ o < j

\* C7: a job leaves Blocked only when every job it declared as a dependency
\* is Done without failure.
C7_BlockedUntilDependenciesDone ==
    [][\A b \in Jobs :
          (status[b] = "Blocked" /\ status'[b] = "Waiting")
              => \A a \in jobs[b].deps : status[a] = "Done" /\ ~failed[a]]_vars

\* The jobs the queue system has specialized with their current key.
SpecializedJobs == DOMAIN pipelineId \ keyChanged

EntriesFor(k) == {i \in 1..Len(pipelines) : pipelines[i].key = k}

\* The status of the pipeline input of the kind under examination.
pipeline_status(j) ==
    IF kind = "compute" THEN compute_pipeline_status(j) ELSE render_pipeline_status(j)

\* C8: within one pipeline family, jobs that specialized the same key (one
\* job again, or two jobs) hold the same entry id, that id is the only entry
\* queued for the key, and once the entry is compiled each of them reports
\* its pipeline input Ready.
C8_SpecializeIdempotent ==
    \A j1, j2 \in SpecializedJobs :
        jobKey[j1] = jobKey[j2] =>
            /\ pipelineId[j1] = pipelineId[j2]
            /\ EntriesFor(jobKey[j1]) = {pipelineId[j1]}
            /\ pipeline_state(pipelineId[j1]) = "Ok"
                  => (pipeline_status(j1) = "Ready" /\ pipeline_status(j2) = "Ready")

\* Two jobs have specialized the same key, the one compilation has completed
\* and both report Ready.
C8_Witness ==
    \E j1, j2 \in SpecializedJobs :
        /\ j1 # j2
        /\ jobKey[j1] = jobKey[j2]
        /\ Len(pipelines) = 1
        /\ pipeline_state(pipelineId[j1]) = "Ok"
        /\ pipeline_status(j1) = "Ready"
        /\ pipeline_status(j2) = "Ready"

CompiledOk(j) == j \in DOMAIN pipelineId /\ pipeline_state(pipelineId[j]) = "Ok"

\* C9: the render and the compute pipeline input report Wait while the job
\* has no pipeline id or the cache state of its id is not Ok, Ready exactly
\* when the state is Ok, and never Fail.
C9_PipelineStatus ==
    \A j \in InputJobs :
        /\ pipeline_status(j) # "Fail"
        /\ pipeline_status(j) = "Ready" <=> CompiledOk(j)
        /\ ~CompiledOk(j) => pipeline_status(j) = "Wait"

\* One job's pipeline has errored and it reports Wait, another job has no id
\* yet and reports Wait.
C9_Witness ==
    \E j1, j2 \in live :
        /\ j1 \in DOMAIN pipelineId
        /\ pipeline_state(pipelineId[j1]) = "Err"
        /\ pipeline_status(j1) = "Wait"
        /\ j2 \notin DOMAIN pipelineId
        /\ pipeline_status(j2) = "Wait"

\* C10: the bind-group input reports Wait while no prepared bind group is
\* attached to the job and Ready once one is attached, never Fail, and it
\* stays Ready from then on however many preparation attempts fail.
C10_BindGroupStatus ==
    [][\A j \in InputJobs :
          /\ bind_group_status(j)' = (IF j \in DOMAIN bindGroup' THEN "Ready" ELSE "Wait")
          /\ bind_group_status(j) = "Ready" => bind_group_status(j)' = "Ready"]_vars

\* One job reports Ready with failed attempts counted to the cap, another has
\* only failed attempts and reports Wait.
C10_Witness ==
    \E j1, j2 \in live :
        /\ j1 \in DOMAIN bindGroup
        /\ prepFailures[j1] = MaxPrepFailures
        /\ bind_group_status(j1) = "Ready"
        /\ j2 \notin DOMAIN bindGroup
        /\ prepFailures[j2] = MaxPrepFailures
        /\ bind_group_status(j2) = "Wait"

\* C11: the entity, main-entity, component and optional inputs report Ready
\* in every state, the optional one whether its data is present or absent,
\* so a tuple of them is Ready.
C11_AlwaysReadyInputs ==
    \A j \in live :
        /\ entity_status(j) = "Ready"
        /\ main_entity_status(j) = "Ready"
        /\ component_status(j) = "Ready"
        /\ option_status(option_data(j)) = "Ready"
        /\ tuple_status(<<entity_status(j), main_entity_status(j),
                          component_status(j), option_status(option_data(j))>>) = "Ready"

\* The optional data of one job is present and that of another is absent.
C11_Witness ==
    \E j1, j2 \in live :
        /\ option_data(j1) = "Some" /\ option_status(option_data(j1)) = "Ready"
        /\ option_data(j2) = None /\ option_status(option_data(j2)) = "Ready"

\* C12: combine is commutative and associative with Ready as its identity,
\* and the status a tuple reports is the same for every order of its members.
C12_CombineLaws ==
    /\ \A a, b, c \in JobInputStatus :
        /\ combine(a, b) = combine(b, a)
        /\ combine(combine(a, b), c) = combine(a, combine(b, c))
        /\ combine("Ready", a) = a
        /\ combine(a, "Ready") = a
    /\ aggregate # None =>
        \A f \in Permutations(1..Len(inputs)) :
            tuple_status([i \in 1..Len(inputs) |-> inputs[f[i]]]) = aggregate

\* status() has been called on a tuple led by a Fail member and followed by
\* a Wait and a Ready one.
C12_Witness ==
    /\ aggregate = "Fail"
    /\ Len(inputs) >= 3
    /\ inputs[1] = "Fail"
    /\ inputs[2] = "Wait"
    /\ inputs[3] = "Ready"

\* C13: a Waiting job whose aggregate input status is read as Fail is Done
\* with the failure marker by the end of that poll, and a Done job stays
\* Done with its marker, is not polled and is not executed again.
C13_FailIsFinal ==
    [][\A j \in Jobs :
          /\ (phase = "poll" /\ j \in DOMAIN polled' /\ polled'[j] = "Fail")
                => (status[j] = "Waiting" /\ status'[j] = "Done" /\ failed'[j])
          /\ status[j] = "Done"
                => /\ status'[j] = "Done"
                   /\ failed'[j] = failed[j]
                   /\ phase = "poll" => j \notin DOMAIN polled'
                   /\ j \in DOMAIN ran' => j \in DOMAIN ran]_vars

\* A poll has just failed a job whose inputs report Fail, and left alone a
\* job that failed in an earlier tick.
C13_Witness ==
    /\ phase = "execute"
    /\ \E j \in DOMAIN polled, k \in reclaimed :
        /\ polled[j] = "Fail" /\ status[j] = "Done" /\ failed[j]
        /\ failed[k] /\ k \notin DOMAIN polled /\ k \notin DOMAIN ran

\* C14: in every tick dependency advancement comes before the readiness
\* poll and the poll before execution, a job becomes Ready only by a poll
\* that read Ready, and a job's run logic is invoked only when the job is
\* Ready and every job it declared as a dependency is Done.
C14_PhaseOrder ==
    [][/\ phase = "check" => phase' = "poll"
       /\ phase = "poll" => phase' = "execute"
       /\ phase = "execute" => phase' = "mark"
       /\ \A j \in Jobs :
            /\ (status[j] = "Blocked" /\ status'[j] # "Blocked") => phase = "check"
            /\ (status[j] # "Ready" /\ status'[j] = "Ready")
                  => (phase = "poll" /\ polled'[j] = "Ready")
            /\ (j \in DOMAIN ran' /\ j \notin DOMAIN ran)
                  => /\ phase = "execute"
                     /\ status[j] = "Ready"
                     /\ \A a \in jobs[j].deps : status[a] = "Done"]_vars

\* The jobs j depends on, directly or through other jobs, as declared.
RECURSIVE Ancestors(_)
Ancestors(j) == jobs[j].deps \cup UNION {Ancestors(d) : d \in jobs[j].deps}

\* The jobs this tick's poll has failed (inputs Fail, or stalled).
FailedByPoll == {f \in DOMAIN polled : status[f] = "Done"}

C16_FirstTick ==
    [][\A j \in DOMAIN jobs' :
          jobs'[j].deps = {} =>
              /\ (status[j] = None /\ status'[j] # None) => status'[j] = "Waiting"
              /\ status[j] = "Waiting" => (phase \in {"check", "poll"} /\ stall[j] = 0)
              /\ (phase = "poll" /\ status[j] = "Waiting") => status'[j] = "Ready"
              /\ (phase = "execute" /\ j \in DOMAIN polled
                  /\ Cardinality({o \in ReadyJobs : RunsBefore(o, j)}) < MaxJobsPerFrame)
                    => j \in DOMAIN ran'
              /\ (phase = "mark" /\ j \in DOMAIN ran) => status'[j] = "Done"]_vars

\* In the first tick that ran anything, a job without dependencies was run
\* and is Done, and a job behind it in the order is left Ready.
C16_Witness ==
    /\ phase = "cleanup"
    /\ reclaimed = {}
    /\ \E j \in DOMAIN ran, o \in ReadyJobs :
        /\ jobs[j].deps = {} /\ status[j] = "Done" /\ ~failed[j]
        /\ RunsBefore(j, o)

\* C17: once a prepared bind group is attached to a job, no later run of
\* the preparer constructs or attaches another one (the job component a
\* bind group is built from is written once, by extract_jobs).
C17_BindGroupBuiltOnce ==
    [][\A j \in DOMAIN bindGroup :
          j \in DOMAIN bindGroup' /\ bindGroup'[j] = bindGroup[j]]_vars

\* In this step as_bind_group was called for job j and returned Err
\* (failures are counted up to MaxPrepFailures).
PreparationFailed(j) == prepFailures'[j] = prepFailures[j] + 1

\* In this step as_bind_group was called for job j.
PreparationAttempted(j) ==
    \/ PreparationFailed(j)
    \/ j \in DOMAIN bindGroup' /\ (j \notin DOMAIN bindGroup \/ bindGroup'[j] # bindGroup[j])

\* C18: a failed preparation attempt leaves the job without a bind group
\* and its bind-group input at Wait, also when an earlier attempt had
\* succeeded, and the job stays among those the preparer visits.
C18_FailedPreparation ==
    [][\A j \in live :
          PreparationFailed(j) =>
              /\ j \notin DOMAIN bindGroup'
              /\ bind_group_status(j)' = "Wait"
              /\ j \in live']_vars

\* C18 (amended): a failed preparation attempt leaves the job's bind group
\* as it was (none, with the input at Wait, or the one an earlier attempt
\* attached, with the input at Ready), and every run of the preparer
\* attempts every job again.
C18_FailureKeepsBinding ==
    [][\A j \in live :
          /\ PreparationFailed(j) =>
                /\ j \in DOMAIN bindGroup' <=> j \in DOMAIN bindGroup
                /\ j \in DOMAIN bindGroup => bindGroup'[j] = bindGroup[j]
                /\ bind_group_status(j)' = bind_group_status(j)
                /\ bind_group_status(j)' = (IF j \in DOMAIN bindGroup THEN "Ready" ELSE "Wait")
                /\ j \in live'
          /\ ((bindGroup' # bindGroup \/ prepFailures' # prepFailures)
              /\ prepFailures[j] < MaxPrepFailures
              /\ (j \in DOMAIN bindGroup => bindGroup[j] < MaxBindGroups))
                => PreparationAttempted(j)]_vars

\* One job carries the bind group of its only successful attempt and has a
\* failed attempt on record, another has a failed attempt and no bind group.
C18_Witness ==
    \E j1, j2 \in live :
        /\ j1 \in DOMAIN bindGroup /\ bindGroup[j1] = 1
        /\ prepFailures[j1] = 1
        /\ bind_group_status(j1) = "Ready"
        /\ j2 \notin DOMAIN bindGroup
        /\ prepFailures[j2] = 1
        /\ bind_group_status(j2) = "Wait"

\* The input J::In of the job type under examination: a tuple of the kind's
\* input with always-ready members around it.
job_input_status(j) ==
    CASE kind = "bind_group" ->
            tuple_status(<<entity_status(j), bind_group_status(j),
                           option_status(option_data(j))>>)
      [] kind = "render" ->
            tuple_status(<<main_entity_status(j), render_pipeline_status(j),
                           component_status(j)>>)
      [] kind = "compute" ->
            tuple_status(<<component_status(j), entity_status(j),
                           compute_pipeline_status(j)>>)

job_input_get(j) ==
    CASE kind = "bind_group" ->
            tuple_get(<<data_get(j), bind_group_get(j), data_get(option_data(j))>>)
      [] kind = "render" ->
            tuple_get(<<data_get(j), render_pipeline_get(j), data_get(j)>>)
      [] kind = "compute" ->
            tuple_get(<<data_get(j), data_get(j), compute_pipeline_get(j)>>)

\* C19: in every state, an input whose status() is Ready has a get() that
\* does not panic: the bind-group input, the render and the compute
\* pipeline input, and a tuple containing them.
C19_ReadyImpliesGet ==
    \A j \in InputJobs :
        /\ bind_group_status(j) = "Ready" => bind_group_get(j) = "Item"
        /\ render_pipeline_status(j) = "Ready" => render_pipeline_get(j) = "Item"
        /\ compute_pipeline_status(j) = "Ready" => compute_pipeline_get(j) = "Item"
        /\ job_input_status(j) = "Ready" => job_input_get(j) = "Item"

\* The tuple input of one render job is Ready and its get yields a value,
\* while another job holds the id of an entry that is not compiled: its
\* input is not Ready and its get would panic.
C19_Witness ==
    \E j1, j2 \in live :
        /\ job_input_status(j1) = "Ready" /\ job_input_get(j1) = "Item"
        /\ job_input_status(j2) # "Ready" /\ job_input_get(j2) = "Panic"
        /\ kind = "render" /\ j2 \in DOMAIN pipelineId

\* The entry job j holds is the one for its current key.
HoldsCurrentEntry(j) ==
    /\ j \in DOMAIN pipelineId
    /\ j \in DOMAIN jobKey
    /\ pipelines[pipelineId[j]].key = jobKey[j]

\* C20: a queue step gives a new pipeline id only to jobs whose key
\* component is flagged added or changed, a job whose key is unchanged keeps
\* its id, after the queue step that follows a key change the job holds the
\* entry of its current key, and from then on it is Ready only on the
\* strength of that entry.
C20_Respecialization ==
    [][\A j \in InputJobs :
          /\ (j \in DOMAIN pipelineId' /\ (j \notin DOMAIN pipelineId
                                            \/ pipelineId'[j] # pipelineId[j]))
                => j \in keyChanged
          /\ (j \in DOMAIN pipelineId /\ (j \notin keyChanged \/ HoldsCurrentEntry(j)))
                => (j \in DOMAIN pipelineId' /\ pipelineId'[j] = pipelineId[j])
          /\ (j \in keyChanged /\ j \notin keyChanged')
                => /\ j \in DOMAIN pipelineId'
                   /\ pipelines'[pipelineId'[j]].key = jobKey[j]
                   /\ jobKey'[j] = jobKey[j]
          /\ (j \in DOMAIN pipelineId /\ j \notin keyChanged)
                => /\ HoldsCurrentEntry(j)
                   /\ pipeline_status(j) = "Ready" => pipeline_state(pipelineId[j]) = "Ok"]_vars

\* The only job changed its key after its first pipeline was compiled: the
\* queue step has attached the entry of the new key, which is not compiled,
\* and the job reports Wait.
C20_Witness ==
    \E j \in live :
        /\ live = {j}
        /\ keyChanged = {}
        /\ Len(pipelines) = 2
        /\ pipelineId[j] = 2
        /\ HoldsCurrentEntry(j)
        /\ pipeline_state(1) = "Ok"
        /\ pipeline_state(2) # "Ok"
        /\ pipeline_status(j) = "Wait"

\* C21: every mirrored dependency set holds the render-world entities of
\* the jobs the producer declared, and the mirrored declared and computed
\* priorities are those of the main world.
C21_MirroredDependencies ==
    \A j \in DOMAIN meta :
        /\ meta[j].deps = {jobs[d].render_entity : d \in jobs[j].deps}
        /\ meta[j].priority = jobs[j].priority
        /\ meta[j].computed_priority = jobs[j].computed_priority

====
